---------------------------- MODULE Spec2Model ----------------------------
(***************************************************************************)
(* A model of the leonardo library: GeometricSequence, Angle, Metal and    *)
(* Rectangle.  The library is a set of value classes without concurrency;  *)
(* the state is the objects a caller holds (their fields), the generators  *)
(* it has started, and the outcome of the last operation it invoked.  One  *)
(* action per operation of the classes.                                    *)
(*                                                                         *)
(* Numbers are exact rationals <<n, d>> in lowest terms with d > 0: the    *)
(* code computes with Python numbers, and every operation the model        *)
(* applies (+, -, *, ** with an integer exponent) is closed on rationals.  *)
(* An operation's outcome is either a value or a raised exception.         *)
(***************************************************************************)
EXTENDS Integers, Sequences, FiniteSets, TLC

-----------------------------------------------------------------------------
(* Bounds of the model *)

\* slice bounds and integer subscripts range over -MaxIndex .. MaxIndex
MaxIndex == 3
\* generators started over one GeometricSequence
MaxIters == 2
\* values pulled from one generator
MaxPulls == 3
\* Metal objects alive at once
MaxObjs == 2
\* predecessor steps n of Metal arithmetic range over -MaxN .. MaxN
MaxN == 1
\* in-place arithmetic operations applied in one run
MaxArith == 1
\* rectangles generators started in one run
MaxGens == 1
\* Angle objects alive at once
MaxAngles == 4
\* Rectangle objects alive at once
MaxRects == 2
\* exponents k tried when taking an exact logarithm: -MaxLog .. MaxLog
MaxLog == 3

-----------------------------------------------------------------------------
(* Exact rational arithmetic *)

Abs(x) == IF x < 0 THEN -x ELSE x

RECURSIVE GCD(_, _)
GCD(a, b) == IF b = 0 THEN a ELSE GCD(b, a % b)

\* the rational n/d (d /= 0) in lowest terms with a positive denominator
Rat(n, d) ==
    LET g == GCD(Abs(n), Abs(d))
        s == IF d < 0 THEN -1 ELSE 1
    IN  <<(s * n) \div g, (s * d) \div g>>

RInt(n) == <<n, 1>>
RZero == RInt(0)
ROne == RInt(1)
RAdd(x, y) == Rat(x[1] * y[2] + y[1] * x[2], x[2] * y[2])
RNeg(x) == <<-x[1], x[2]>>
RSub(x, y) == RAdd(x, RNeg(y))
RMul(x, y) == Rat(x[1] * y[1], x[2] * y[2])
RLt(x, y) == x[1] * y[2] < y[1] * x[2]
\* 1/x for x /= 0
RInv(x) == Rat(x[2], x[1])

RECURSIVE RPowNat(_, _)
RPowNat(x, n) == IF n = 0 THEN ROne ELSE RMul(x, RPowNat(x, n - 1))

-----------------------------------------------------------------------------
(* Outcomes of a call: a number, a list of numbers, or a raised exception *)

NoList == <<>>

Returned(x) == [kind |-> "item", exc |-> "", msg |-> "", item |-> x, list |-> NoList]
ReturnedList(l) == [kind |-> "list", exc |-> "", msg |-> "", item |-> RZero, list |-> l]
Raised(e, m) == [kind |-> "raise", exc |-> e, msg |-> m, item |-> RZero, list |-> NoList]
NoOutcome == [kind |-> "none", exc |-> "", msg |-> "", item |-> RZero, list |-> NoList]

\* Python's x ** n for a number x and an int n: zero to a negative power raises
PyPow(x, n) ==
    IF n >= 0 THEN Returned(RPowNat(x, n))
    ELSE IF x = RZero
         THEN Raised("ZeroDivisionError", "0.0 cannot be raised to a negative power")
         ELSE Returned(RPowNat(RInv(x), -n))

\* an optional slice field: None, or an int
None == [some |-> FALSE, v |-> 0]
Some(n) == [some |-> TRUE, v |-> n]

\* the list range(start, stop, step) enumerates, step /= 0
RECURSIVE PyRange(_, _, _)
PyRange(start, stop, step) ==
    IF (step > 0 /\ start < stop) \/ (step < 0 /\ start > stop)
    THEN <<start>> \o PyRange(start + step, stop, step)
    ELSE <<>>

-----------------------------------------------------------------------------
(* GeometricSequence *)

\* GeometricSequence(common_ratio, scale_factor)
GeometricSequence(common_ratio, scale_factor) ==
    [common_ratio |-> common_ratio, scale_factor |-> scale_factor]

\* self[n] for an int n: scale_factor * common_ratio ** n
GeometricSequence_getitem_int(self, n) ==
    LET p == PyPow(self.common_ratio, n)
    IN  IF p.kind = "raise" THEN p ELSE Returned(RMul(self.scale_factor, p.item))

\* [self[index] for index in indices]: the first element that raises ends it
RECURSIVE ListOfItems(_, _)
ListOfItems(self, indices) ==
    IF indices = <<>> THEN ReturnedList(<<>>)
    ELSE LET head == GeometricSequence_getitem_int(self, Head(indices))
         IN  IF head.kind = "raise" THEN head
             ELSE LET rest == ListOfItems(self, Tail(indices))
                  IN  IF rest.kind = "raise" THEN rest
                      ELSE ReturnedList(<<head.item>> \o rest.list)

StepOrOneIgnored(subscript) == 1

\* step = subscript.step or 1
StepOrOne(subscript) ==
    IF subscript.step.some /\ subscript.step.v /= 0 THEN subscript.step.v ELSE 1

MissingStartDefaulted(subscript) == FALSE

\* subscript.start is None
MissingStart(subscript) == ~subscript.start.some

\* self[start:stop:step]
GeometricSequence_getitem_slice(self, subscript) ==
    IF MissingStart(subscript)
    THEN Raised("TypeError", "sequence requires pre-determined start")
    ELSE IF subscript.step.some /\ ~subscript.stop.some
    THEN Raised("TypeError", "sequence with step needs pre-determined stop")
    ELSE IF subscript.step.some /\ subscript.step.v = 0
    THEN Raised("ValueError", "slice step cannot be zero")
    ELSE IF ~subscript.stop.some
    THEN \* range(start, None, step)
         Raised("TypeError", "'NoneType' object cannot be interpreted as an integer")
    ELSE ListOfItems(self, PyRange(subscript.start.v, subscript.stop.v,
                                   StepOrOne(subscript)))

NewGeneratorShared(its) ==
    [index |-> IF its = <<>> THEN 0 ELSE its[Len(its)].index,
     yielded |-> <<>>, exhausted |-> FALSE]

\* iter(self): a fresh generator whose itertools.count() starts at 0
NewGenerator(its) == [index |-> 0, yielded |-> <<>>, exhausted |-> FALSE]

-----------------------------------------------------------------------------
(* Angle *)

\* Angle(fraction); exact is FALSE when the fraction is an irrational number
\* the model does not compute
Angle(fraction) == [fraction |-> fraction, exact |-> TRUE]
AngleInexact == [fraction |-> RZero, exact |-> FALSE]

\* What the class attribute Angle.zero evaluates to.  zero is a property
\* wrapped in a classmethod: an interpreter that chains the two descriptors
\* (3.11, 3.12) evaluates the property and gives Angle(0.0); one that does not
\* (3.13 on) gives a method bound to the class that wraps the property.
Builds == {"chained", "unchained"}
Angle_zero(build) ==
    IF build = "chained"
    THEN [type |-> "Angle", angle |-> Angle(RZero)]
    ELSE [type |-> "method", angle |-> Angle(RZero)]

\* self * other for a number other
Angle_mul(self, other) ==
    IF self.exact THEN Angle(RMul(self.fraction, other)) ELSE AngleInexact

-----------------------------------------------------------------------------
(* Metal *)

\* the concrete variants: sibling subclasses of Metal, each with its ratio()
Variants == {"Golden", "Silver"}

\* cls.ratio(): the variant's constant, a number > 1.  The metallic ratios
\* are irrational; each variant takes a rational > 1 in its place.
Metal_ratio(cls) == IF cls = "Golden" THEN Rat(3, 2) ELSE RInt(2)

\* Metal(magnitude) of a variant
Metal(cls, magnitude) == [cls |-> cls, magnitude |-> magnitude]

\* cls.sequence(scale_factor)
Metal_sequence(cls, scale_factor) ==
    GeometricSequence(Metal_ratio(cls), scale_factor)

\* self[n]
Metal_getitem(self, n) ==
    GeometricSequence_getitem_int(Metal_sequence(self.cls, self.magnitude), n)

\* outcomes of an operation on Metal objects
MNone == [kind |-> "none", exc |-> "", ref |-> 0, bool |-> FALSE,
          angle |-> Angle(RZero), width |-> RZero, height |-> RZero]
MRef(i) == [MNone EXCEPT !.kind = "ref", !.ref = i]
MBool(b) == [MNone EXCEPT !.kind = "bool", !.bool = b]
MAngle(a) == [MNone EXCEPT !.kind = "angle", !.angle = a]
MRaised(e) == [MNone EXCEPT !.kind = "raise", !.exc = e]
\* Rectangle(width, height)
MRect(w, h) == [MNone EXCEPT !.kind = "rect", !.width = w, !.height = h]

Effect(h, out) == [heap |-> h, out |-> out]

\* self += n on the object at h[i]
Metal_iadd(h, i, n) ==
    IF n = 0 THEN Effect(h, MRaised("Metal.ArithmeticError"))
    ELSE Effect([h EXCEPT ![i].magnitude = RAdd(@, Metal_getitem(h[i], -n).item)],
                MRef(i))

Metal_isub_unchecked(h, i, n) ==
    Effect([h EXCEPT ![i].magnitude = RSub(@, Metal_getitem(h[i], -n).item)],
           MRef(i))

\* self -= n on the object at h[i]
Metal_isub(h, i, n) ==
    IF n = 0 THEN Effect(h, MRaised("Metal.ArithmeticError"))
    ELSE Effect([h EXCEPT ![i].magnitude = RSub(@, Metal_getitem(h[i], -n).item)],
                MRef(i))

Metal_add_aliased(h, i, n) == Metal_iadd(h, i, n)

\* self + n: copy(self) is a new object, placed at the end of the heap
Metal_add(h, i, n) ==
    IF n = 0 THEN Effect(h, MRaised("Metal.ArithmeticError"))
    ELSE LET metal == [h[i] EXCEPT !.magnitude = RAdd(@, Metal_getitem(h[i], -n).item)]
         IN  Effect(Append(h, metal), MRef(Len(h) + 1))

\* self - n
Metal_sub(h, i, n) ==
    IF n = 0 THEN Effect(h, MRaised("Metal.ArithmeticError"))
    ELSE LET metal == [h[i] EXCEPT !.magnitude = RSub(@, Metal_getitem(h[i], -n).item)]
         IN  Effect(Append(h, metal), MRef(Len(h) + 1))

\* isinstance(obj, cls) for a concrete variant cls: the variants are siblings
IsInstance(obj, cls) == obj.cls = cls

\* type(obj).ratio: the classmethod bound to obj's class
BoundRatio(obj) == [func |-> obj.cls, self |-> obj.cls]

\* self.__eq__(other) for a Metal other
Metal_eq(self, other) ==
    BoundRatio(self) = BoundRatio(other) /\ self.magnitude = other.magnitude

\* self.__lt__(other): "NotImplemented", or a bool
Metal_lt(self, other) ==
    IF ~IsInstance(other, self.cls) THEN "NotImplemented"
    ELSE IF RLt(self.magnitude, other.magnitude) THEN "True" ELSE "False"

\* self.__gt__(other) as total_ordering derives it from __lt__
Metal_gt(self, other) ==
    LET op_result == Metal_lt(self, other)
    IN  IF op_result = "NotImplemented" THEN op_result
        ELSE IF op_result = "False" /\ ~Metal_eq(self, other) THEN "True" ELSE "False"

\* a < b: a.__lt__(b), then the reflected b.__gt__(a), then TypeError
PyLess(a, b) ==
    LET first == Metal_lt(a, b)
        second == Metal_gt(b, a)
    IN  IF first /= "NotImplemented" THEN MBool(first = "True")
        ELSE IF second /= "NotImplemented" THEN MBool(second = "True")
        ELSE MRaised("TypeError")

\* cls.angle(): Angle(1 / (1 + ratio()))
Metal_angle(cls) == Angle(RInv(RAdd(ROne, Metal_ratio(cls))))

\* the ints k with b^k = x, k in -MaxLog .. MaxLog
ExactLogs(x, b) ==
    {k \in -MaxLog .. MaxLog :
        x = (IF k >= 0 THEN RPowNat(b, k) ELSE RPowNat(RInv(b), -k))}

\* Angle.zero(): the value of the attribute Angle.zero, called
Angle_zero_called(build) ==
    LET zero == Angle_zero(build)
    IN  IF zero.type = "Angle"
        THEN \* 'Angle' object is not callable
             MRaised("TypeError")
        ELSE \* the method calls the property object, which is not callable
             MRaised("TypeError")

\* self.angle_adjusted
Metal_angle_adjusted(self, build) ==
    IF self.magnitude = RZero
    THEN Angle_zero_called(build)
    ELSE IF RLt(self.magnitude, RZero)
    THEN \* math.log of a negative number
         MRaised("ValueError")
    ELSE LET ks == ExactLogs(self.magnitude, Metal_ratio(self.cls))
         IN  IF ks = {} THEN MAngle(AngleInexact)
             ELSE MAngle(Angle_mul(Metal_angle(self.cls),
                                   RInt(1 + (CHOOSE k \in ks : TRUE))))

\* self.rectangle(): width next(self).magnitude = self[1], height magnitude
Metal_rectangle(self) == MRect(Metal_getitem(self, 1).item, self.magnitude)

\* self.rectangles: seq is built at once, the generator expression's body
\* (with its read of self.magnitude) runs at each pull
Metal_rectangles(h, i) ==
    [self |-> i,
     seq |-> GeometricSequence(Metal_ratio(h[i].cls), h[i].magnitude),
     index |-> 0,
     yielded |-> <<>>]

\* next(g): the rectangle the generator g yields, and g after it
Generator_next(h, g) ==
    LET width == GeometricSequence_getitem_int(g.seq, g.index).item
        rect == [width |-> width, height |-> h[g.self].magnitude]
    IN  [g EXCEPT !.index = @ + 1, !.yielded = Append(@, rect)]

-----------------------------------------------------------------------------
(* Angle arithmetic *)

\* a right-hand operand: an Angle object (by identity) or a number
AngleOperand(i) == [isAngle |-> TRUE, ref |-> i, num |-> RZero]
NumberOperand(x) == [isAngle |-> FALSE, ref |-> 0, num |-> x]

\* what a method call leaves: the heap of Angle objects, and the value it
\* returned, "NotImplemented" or "object" with the object's identity
Left(h, ret, ref) == [heap |-> h, ret |-> ret, ref |-> ref]

\* self.__add__(other) for the object self = h[i]
Angle_add(h, i, other) ==
    IF other.isAngle
    THEN Left(Append(h, Angle(RAdd(h[i].fraction, h[other.ref].fraction))),
              "object", Len(h) + 1)
    ELSE Left(h, "NotImplemented", 0)

\* self.__iadd__(other)
Angle_iadd(h, i, other) ==
    Left(IF other.isAngle
         THEN [h EXCEPT ![i].fraction = RAdd(@, h[other.ref].fraction)]
         ELSE h,
         "NotImplemented", 0)

\* self.__mul__(other)
Angle_mul_method(h, i, other) ==
    IF ~other.isAngle
    THEN Left(Append(h, Angle_mul(h[i], other.num)), "object", Len(h) + 1)
    ELSE Left(h, "NotImplemented", 0)

\* self.__imul__(other)
Angle_imul(h, i, other) ==
    Left(IF ~other.isAngle
         THEN [h EXCEPT ![i].fraction = RMul(@, other.num)]
         ELSE h,
         "NotImplemented", 0)

\* outcomes of a statement on Angle objects
ANone == [kind |-> "none", exc |-> "", ref |-> 0]
ARef(i) == [kind |-> "ref", exc |-> "", ref |-> i]
ARaised(e) == [kind |-> "raise", exc |-> e, ref |-> 0]

\* self.<method>(other) for one of Angle's four arithmetic methods
Angle_call(method, h, i, other) ==
    CASE method = "__add__" -> Angle_add(h, i, other)
      [] method = "__iadd__" -> Angle_iadd(h, i, other)
      [] method = "__mul__" -> Angle_mul_method(h, i, other)
      [] method = "__imul__" -> Angle_imul(h, i, other)

\* x op y: x.__op__(y); Angle has no reflected methods and a number's
\* reflected method does not know Angle, so NotImplemented ends in TypeError
PyBinary(h, i, other, method) ==
    LET r == Angle_call(method, h, i, other)
    IN  IF r.ret /= "NotImplemented" THEN [heap |-> r.heap, out |-> ARef(r.ref)]
        ELSE [heap |-> r.heap, out |-> ARaised("TypeError")]

\* x op= y: x.__iop__(y), and on NotImplemented the plain x op y, evaluated
\* on the heap the in-place method left
PyInplace(h, i, other, imethod, method) ==
    LET r == Angle_call(imethod, h, i, other)
    IN  IF r.ret /= "NotImplemented" THEN [heap |-> r.heap, out |-> ARef(r.ref)]
        ELSE PyBinary(r.heap, i, other, method)

-----------------------------------------------------------------------------
(* Rectangle *)

\* Rectangle(width, height), sides ints
Rectangle(width, height) == [width |-> width, height |-> height]

\* r1 == r2: by field match
Rectangle_eq(r1, r2) == r1.width = r2.width /\ r1.height = r2.height

DigitChars == <<"0", "1", "2", "3", "4", "5", "6", "7", "8", "9">>
DigitValue(c) == (CHOOSE d \in 1 .. 10 : DigitChars[d] = c) - 1

\* the decimal digits of n >= 0
RECURSIVE NatRepr(_)
NatRepr(n) ==
    IF n < 10 THEN <<DigitChars[n + 1]>>
    ELSE NatRepr(n \div 10) \o <<DigitChars[(n % 10) + 1]>>

IntReprUnsigned(n) == NatRepr(Abs(n))

\* repr(n) of an int
IntRepr(n) == IF n < 0 THEN <<"-">> \o NatRepr(-n) ELSE NatRepr(n)

\* the int a digit string denotes
RECURSIVE NatEval(_)
NatEval(text) ==
    IF text = <<>> THEN 0
    ELSE 10 * NatEval(SubSeq(text, 1, Len(text) - 1)) + DigitValue(text[Len(text)])

\* the int a literal denotes
IntEval(text) == IF text[1] = "-" THEN -NatEval(Tail(text)) ELSE NatEval(text)

\* repr(r): Rectangle(width=<w>, height=<h>)
Rectangle_repr(r) ==
    <<"Rectangle", "(", "width", "=">> \o IntRepr(r.width)
        \o <<",", "height", "=">> \o IntRepr(r.height) \o <<")">>

\* eval(text) of a constructor call with the keywords width and height
Rectangle_eval(text) ==
    LET comma == CHOOSE k \in 1 .. Len(text) : text[k] = ","
        close == CHOOSE k \in 1 .. Len(text) : text[k] = ")"
    IN  Rectangle(IntEval(SubSeq(text, 5, comma - 1)),
                  IntEval(SubSeq(text, comma + 3, close - 1)))

RNone == [kind |-> "none", bool |-> FALSE, rect |-> Rectangle(0, 0), text |-> <<>>]
RRect(r) == [RNone EXCEPT !.kind = "rect", !.rect = r]
RBool(b) == [RNone EXCEPT !.kind = "bool", !.bool = b]
RRestored(text, r) == [RNone EXCEPT !.kind = "restored", !.rect = r, !.text = text]

-----------------------------------------------------------------------------
(* State *)

VARIABLES
    seq,        \* the GeometricSequence the caller holds
    result,     \* outcome of the subscript query on seq the caller last made
    call,       \* the last subscript query: its subscript and seq before it
    iters,      \* the generators started by iter(seq), in creation order
    heap,       \* the Metal objects, by identity 1 .. Len(heap)
    gens,       \* the generators obtained from the rectangles property
    mres,       \* outcome of the last operation on Metal objects
    mcall,      \* that operation: its operands and the heap before it
    arith,      \* in-place arithmetic operations applied so far
    angles,     \* the Angle objects, by identity 1 .. Len(angles)
    env,        \* the caller's names a and b: the Angle object each refers to
    ares,       \* outcome of the last statement on Angle objects
    acall,      \* that statement, with angles and env before it
    rects,      \* the Rectangle objects the caller holds
    rres,       \* outcome of the last operation on Rectangle objects
    rcall       \* that operation

seqVars == <<seq, result, call, iters>>
metalVars == <<heap, gens, mres, mcall, arith>>
angleVars == <<angles, env, ares, acall>>
rectVars == <<rects, rres, rcall>>
vars == <<seqVars, metalVars, angleVars, rectVars>>

Indices == -MaxIndex .. MaxIndex
OptIndices == {None} \cup {Some(n) : n \in Indices}
Slices == [start : OptIndices, stop : OptIndices, step : OptIndices]
NoSlice == [start |-> None, stop |-> None, step |-> None]
NoCall == [op |-> "none", n |-> 0, subscript |-> NoSlice, pre |-> GeometricSequence(RZero, RZero)]

NoMCall == [op |-> "none", self |-> 0, other |-> 0, n |-> 0, pre |-> <<>>]
MCall(op, i, j, n) == [op |-> op, self |-> i, other |-> j, n |-> n, pre |-> heap]

\* the magnitudes Metal objects are constructed with
Magnitudes == {RZero, ROne, RInt(-2), Rat(9, 4)}
Steps == -MaxN .. MaxN

Names == {"a", "b"}
NoEnv == [x \in Names |-> 0]
NoACall == [op |-> "none", target |-> "a", operand |-> NumberOperand(RZero),
            pre |-> <<>>, preenv |-> NoEnv]
ACall(op, x, operand) ==
    [op |-> op, target |-> x, operand |-> operand, pre |-> angles, preenv |-> env]

\* the fractions Angle objects are built with, and the numbers they are
\* multiplied by
Fractions == {RZero, Rat(1, 4), ROne}
Factors == {RZero, RInt(2), Rat(-1, 2)}
\* right-hand operands in the current state: what a name refers to, or a number
Operands == {AngleOperand(env[y]) : y \in Names} \cup {NumberOperand(k) : k \in Factors}

NoRCall == [op |-> "none", width |-> 0, height |-> 0, self |-> 0, other |-> 0]
\* the sides Rectangle objects are built with
Sides == {-13, -2, 0, 10, 20}

\* the numbers sequences are built from: a zero, integers, a proper fraction
SeqRatios == {RZero, RInt(2), Rat(-1, 2)}
SeqScales == {ROne, RInt(3)}

-----------------------------------------------------------------------------
(* Operations of GeometricSequence *)

SeqIdle ==
    /\ result = NoOutcome
    /\ call = NoCall
    /\ iters = <<>>

MetalIdle ==
    /\ heap = <<>>
    /\ gens = <<>>
    /\ mres = MNone
    /\ mcall = NoMCall
    /\ arith = 0

AngleIdle ==
    /\ angles = <<>>
    /\ env = NoEnv
    /\ ares = ANone
    /\ acall = NoACall

RectIdle ==
    /\ rects = <<>>
    /\ rres = RNone
    /\ rcall = NoRCall

SeqInit ==
    /\ seq \in {GeometricSequence(r, s) : r \in SeqRatios, s \in SeqScales}
    /\ SeqIdle
    /\ MetalIdle
    /\ AngleIdle
    /\ RectIdle

\* seq[n]
GetItemInt ==
    \E n \in Indices :
        /\ call.op = "none"
        /\ result' = GeometricSequence_getitem_int(seq, n)
        /\ call' = [op |-> "int", n |-> n, subscript |-> NoSlice, pre |-> seq]
        /\ UNCHANGED <<seq, iters, metalVars, angleVars, rectVars>>

\* seq[start:stop:step]
GetItemSlice ==
    \E subscript \in Slices :
        /\ call.op = "none"
        /\ result' = GeometricSequence_getitem_slice(seq, subscript)
        /\ call' = [op |-> "slice", n |-> 0, subscript |-> subscript, pre |-> seq]
        /\ UNCHANGED <<seq, iters, metalVars, angleVars, rectVars>>

\* iter(seq)
Iter ==
    /\ Len(iters) < MaxIters
    /\ iters' = Append(iters, NewGenerator(iters))
    /\ UNCHANGED <<seq, result, call, metalVars, angleVars, rectVars>>

\* next(it) on the i-th generator: yield self[index], count() moves on
IterNext ==
    \E i \in 1 .. Len(iters) :
        /\ Len(iters[i].yielded) < MaxPulls
        /\ ~iters[i].exhausted
        /\ LET item == GeometricSequence_getitem_int(seq, iters[i].index)
           IN  iters' = [iters EXCEPT ![i] =
                   IF item.kind = "raise"
                   THEN [@ EXCEPT !.exhausted = TRUE]
                   ELSE [@ EXCEPT !.index = @ + 1,
                                  !.yielded = Append(@, item.item)]]
        /\ UNCHANGED <<seq, result, call, metalVars, angleVars, rectVars>>

\* the caller drops the value (or handles the exception) of its last query
SeqForget ==
    /\ call.op /= "none"
    /\ result' = NoOutcome
    /\ call' = NoCall
    /\ UNCHANGED <<seq, iters, metalVars, angleVars, rectVars>>

SeqNext == GetItemInt \/ GetItemSlice \/ Iter \/ IterNext \/ SeqForget

SpecSeq == SeqInit /\ [][SeqNext]_vars

-----------------------------------------------------------------------------
(* Operations of Metal *)

MetalInit ==
    /\ seq = GeometricSequence(ROne, ROne)
    /\ SeqIdle
    /\ MetalIdle
    /\ AngleIdle
    /\ RectIdle

\* cls(magnitude)
MetalNew ==
    \E cls \in Variants, magnitude \in Magnitudes :
        /\ mcall.op = "none"
        /\ Len(heap) < MaxObjs
        /\ heap' = Append(heap, Metal(cls, magnitude))
        /\ mres' = MRef(Len(heap) + 1)
        /\ mcall' = MCall("new", 0, 0, 0)
        /\ UNCHANGED <<gens, arith, seqVars, angleVars, rectVars>>

\* m += n
MetalIAdd ==
    \E i \in 1 .. Len(heap), n \in Steps :
        /\ mcall.op = "none"
        /\ arith < MaxArith
        /\ LET e == Metal_iadd(heap, i, n)
           IN  heap' = e.heap /\ mres' = e.out
        /\ mcall' = MCall("iadd", i, 0, n)
        /\ arith' = arith + 1
        /\ UNCHANGED <<gens, seqVars, angleVars, rectVars>>

\* m -= n
MetalISub ==
    \E i \in 1 .. Len(heap), n \in Steps :
        /\ mcall.op = "none"
        /\ arith < MaxArith
        /\ LET e == Metal_isub(heap, i, n)
           IN  heap' = e.heap /\ mres' = e.out
        /\ mcall' = MCall("isub", i, 0, n)
        /\ arith' = arith + 1
        /\ UNCHANGED <<gens, seqVars, angleVars, rectVars>>

\* m + n
MetalAdd ==
    \E i \in 1 .. Len(heap), n \in Steps :
        /\ mcall.op = "none"
        /\ Len(heap) < MaxObjs
        /\ LET e == Metal_add(heap, i, n)
           IN  heap' = e.heap /\ mres' = e.out
        /\ mcall' = MCall("add", i, 0, n)
        /\ UNCHANGED <<gens, arith, seqVars, angleVars, rectVars>>

\* m - n
MetalSub ==
    \E i \in 1 .. Len(heap), n \in Steps :
        /\ mcall.op = "none"
        /\ Len(heap) < MaxObjs
        /\ LET e == Metal_sub(heap, i, n)
           IN  heap' = e.heap /\ mres' = e.out
        /\ mcall' = MCall("sub", i, 0, n)
        /\ UNCHANGED <<gens, arith, seqVars, angleVars, rectVars>>

\* a < b
MetalLess ==
    \E i \in 1 .. Len(heap), j \in 1 .. Len(heap) :
        /\ mcall.op = "none"
        /\ mres' = PyLess(heap[i], heap[j])
        /\ mcall' = MCall("lt", i, j, 0)
        /\ UNCHANGED <<heap, gens, arith, seqVars, angleVars, rectVars>>

\* a == b
MetalEqual ==
    \E i \in 1 .. Len(heap), j \in 1 .. Len(heap) :
        /\ mcall.op = "none"
        /\ mres' = MBool(Metal_eq(heap[i], heap[j]))
        /\ mcall' = MCall("eq", i, j, 0)
        /\ UNCHANGED <<heap, gens, arith, seqVars, angleVars, rectVars>>

\* m.angle_adjusted
MetalAngleAdjusted ==
    \E i \in 1 .. Len(heap), build \in Builds :
        /\ mcall.op = "none"
        /\ mres' = Metal_angle_adjusted(heap[i], build)
        /\ mcall' = MCall("angle_adjusted", i, 0, 0)
        /\ UNCHANGED <<heap, gens, arith, seqVars, angleVars, rectVars>>

\* m.rectangle()
MetalRectangle ==
    \E i \in 1 .. Len(heap) :
        /\ mcall.op = "none"
        /\ mres' = Metal_rectangle(heap[i])
        /\ mcall' = MCall("rectangle", i, 0, 0)
        /\ UNCHANGED <<heap, gens, arith, seqVars, angleVars, rectVars>>

\* g = m.rectangles
MetalRectangles ==
    \E i \in 1 .. Len(heap) :
        /\ Len(gens) < MaxGens
        /\ gens' = Append(gens, Metal_rectangles(heap, i))
        /\ UNCHANGED <<heap, mres, mcall, arith, seqVars, angleVars, rectVars>>

\* next(g)
MetalRectanglesNext ==
    \E g \in 1 .. Len(gens) :
        /\ Len(gens[g].yielded) < MaxPulls
        /\ gens' = [gens EXCEPT ![g] = Generator_next(heap, @)]
        /\ UNCHANGED <<heap, mres, mcall, arith, seqVars, angleVars, rectVars>>

\* the caller drops the result (or handles the exception) of its last operation
MetalForget ==
    /\ mcall.op /= "none"
    /\ mres' = MNone
    /\ mcall' = NoMCall
    /\ UNCHANGED <<heap, gens, arith, seqVars, angleVars, rectVars>>

\* construction and predecessor arithmetic of Metal objects
MetalNext ==
    \/ MetalNew \/ MetalIAdd \/ MetalISub \/ MetalAdd \/ MetalSub
    \/ MetalForget

SpecMetal == MetalInit /\ [][MetalNext]_vars

\* construction, comparison and the derived angle and rectangle
MetalQueriesNext ==
    \/ MetalNew \/ MetalLess \/ MetalEqual \/ MetalAngleAdjusted
    \/ MetalRectangle \/ MetalForget

SpecMetalQueries == MetalInit /\ [][MetalQueriesNext]_vars

\* one Metal object, its rectangles generators and in-place arithmetic on it
RectanglesInit ==
    /\ seq = GeometricSequence(ROne, ROne)
    /\ SeqIdle
    /\ heap \in {<<Metal(cls, magnitude)>> : cls \in Variants, magnitude \in Magnitudes}
    /\ gens = <<>>
    /\ mres = MNone
    /\ mcall = NoMCall
    /\ arith = 0
    /\ AngleIdle
    /\ RectIdle

RectanglesNext ==
    \/ MetalIAdd \/ MetalISub \/ MetalRectangles \/ MetalRectanglesNext
    \/ MetalForget

SpecRectangles == RectanglesInit /\ [][RectanglesNext]_vars

-----------------------------------------------------------------------------
(* Operations of Angle *)

AngleInit ==
    /\ seq = GeometricSequence(ROne, ROne)
    /\ SeqIdle
    /\ MetalIdle
    /\ RectIdle
    /\ \E fa \in Fractions, fb \in Fractions :
          angles = <<Angle(fa), Angle(fb)>>
    /\ env = [x \in Names |-> IF x = "a" THEN 1 ELSE 2]
    /\ ares = ANone
    /\ acall = NoACall

\* x + y (the value is not bound to a name)
AngleAdd ==
    \E x \in Names, y \in Operands :
        /\ acall.op = "none"
        /\ Len(angles) < MaxAngles
        /\ LET e == PyBinary(angles, env[x], y, "__add__")
           IN  angles' = e.heap /\ ares' = e.out
        /\ acall' = ACall("add", x, y)
        /\ UNCHANGED <<env, seqVars, metalVars, rectVars>>

\* x * y
AngleMul ==
    \E x \in Names, y \in Operands :
        /\ acall.op = "none"
        /\ Len(angles) < MaxAngles
        /\ LET e == PyBinary(angles, env[x], y, "__mul__")
           IN  angles' = e.heap /\ ares' = e.out
        /\ acall' = ACall("mul", x, y)
        /\ UNCHANGED <<env, seqVars, metalVars, rectVars>>

\* x += y: the name x is bound to what the statement evaluates to
AngleIAdd ==
    \E x \in Names, y \in Operands :
        /\ acall.op = "none"
        /\ Len(angles) < MaxAngles
        /\ LET e == PyInplace(angles, env[x], y, "__iadd__", "__add__")
           IN  /\ angles' = e.heap
               /\ ares' = e.out
               /\ env' = IF e.out.kind = "ref" THEN [env EXCEPT ![x] = e.out.ref]
                         ELSE env
        /\ acall' = ACall("iadd", x, y)
        /\ UNCHANGED <<seqVars, metalVars, rectVars>>

\* x *= y
AngleIMul ==
    \E x \in Names, y \in Operands :
        /\ acall.op = "none"
        /\ Len(angles) < MaxAngles
        /\ LET e == PyInplace(angles, env[x], y, "__imul__", "__mul__")
           IN  /\ angles' = e.heap
               /\ ares' = e.out
               /\ env' = IF e.out.kind = "ref" THEN [env EXCEPT ![x] = e.out.ref]
                         ELSE env
        /\ acall' = ACall("imul", x, y)
        /\ UNCHANGED <<seqVars, metalVars, rectVars>>

\* the caller drops the value (or handles the exception) of its last statement
AngleForget ==
    /\ acall.op /= "none"
    /\ ares' = ANone
    /\ acall' = NoACall
    /\ UNCHANGED <<angles, env, seqVars, metalVars, rectVars>>

AngleNext == AngleAdd \/ AngleMul \/ AngleIAdd \/ AngleIMul \/ AngleForget

SpecAngle == AngleInit /\ [][AngleNext]_vars

-----------------------------------------------------------------------------
(* Operations of Rectangle *)

RectInit ==
    /\ seq = GeometricSequence(ROne, ROne)
    /\ SeqIdle
    /\ MetalIdle
    /\ AngleIdle
    /\ RectIdle

\* Rectangle(width, height)
RectNew ==
    \E width \in Sides, height \in Sides :
        /\ rcall.op = "none"
        /\ Len(rects) < MaxRects
        /\ rects' = Append(rects, Rectangle(width, height))
        /\ rres' = RRect(Rectangle(width, height))
        /\ rcall' = [op |-> "new", width |-> width, height |-> height,
                     self |-> Len(rects) + 1, other |-> 0]
        /\ UNCHANGED <<seqVars, metalVars, angleVars>>

\* r1 == r2
RectEqual ==
    \E i \in 1 .. Len(rects), j \in 1 .. Len(rects) :
        /\ rcall.op = "none"
        /\ rres' = RBool(Rectangle_eq(rects[i], rects[j]))
        /\ rcall' = [op |-> "eq", width |-> 0, height |-> 0, self |-> i, other |-> j]
        /\ UNCHANGED <<rects, seqVars, metalVars, angleVars>>

\* eval(repr(r))
RectRestore ==
    \E i \in 1 .. Len(rects) :
        /\ rcall.op = "none"
        /\ LET text == Rectangle_repr(rects[i])
           IN  rres' = RRestored(text, Rectangle_eval(text))
        /\ rcall' = [op |-> "restore", width |-> 0, height |-> 0, self |-> i, other |-> 0]
        /\ UNCHANGED <<rects, seqVars, metalVars, angleVars>>

\* the caller drops the value of its last operation
RectForget ==
    /\ rcall.op /= "none"
    /\ rres' = RNone
    /\ rcall' = NoRCall
    /\ UNCHANGED <<rects, seqVars, metalVars, angleVars>>

RectNext == RectNew \/ RectEqual \/ RectRestore \/ RectForget

SpecRect == RectInit /\ [][RectNext]_vars

-----------------------------------------------------------------------------
(* Properties of GeometricSequence *)

\* scale_factor * common_ratio^i as a number, where it is one
\* (common_ratio /= 0 or i >= 0)
Term(s, i) ==
    RMul(s.scale_factor,
         IF i >= 0 THEN RPowNat(s.common_ratio, i)
         ELSE RPowNat(RInv(s.common_ratio), -i))

TermDefined(s, i) == s.common_ratio /= RZero \/ i >= 0

\* i lies strictly before the stop b when counting by k
Before(i, b, k) == IF k > 0 THEN i < b ELSE i > b

\* the last query was seq[a:b] or seq[a:b:k] with ints a, b and k /= 0
IsRangeQuery ==
    /\ call.op = "slice"
    /\ call.subscript.start.some
    /\ call.subscript.stop.some
    /\ call.subscript.step.some => call.subscript.step.v /= 0

QueryStart == call.subscript.start.v
QueryStop == call.subscript.stop.v
QueryStep == IF call.subscript.step.some THEN call.subscript.step.v ELSE 1

\* how many of a, a+k, a+2k, ... lie strictly before b
QueryCount ==
    Cardinality({j \in 0 .. 2 * MaxIndex + 1 :
                    Before(QueryStart + j * QueryStep, QueryStop, QueryStep)})

\* result is the list [seq[a], seq[a+k], ...] stopping before b
ResultIsRange ==
    /\ result.kind = "list"
    /\ Len(result.list) = QueryCount
    /\ \A j \in 1 .. QueryCount :
          LET i == QueryStart + (j - 1) * QueryStep
          IN  /\ Before(i, QueryStop, QueryStep)
              /\ TermDefined(call.pre, i)
              /\ result.list[j] = Term(call.pre, i)
    /\ ~Before(QueryStart + QueryCount * QueryStep, QueryStop, QueryStep)

\* every index of the queried range has a term
RangeDefined ==
    \A j \in 1 .. QueryCount :
        TermDefined(call.pre, QueryStart + (j - 1) * QueryStep)

\* C1 as stated: for every sequence and all ints a, b, k /= 0 the range query
\* seq[a:b:k] returns the list [seq[a], seq[a+k], ...] of the indices strictly
\* before b (k = 1 when omitted), and leaves the sequence's fields unchanged.
C1_RangeQueryAlwaysList ==
    IsRangeQuery => (ResultIsRange /\ seq = call.pre)

\* C1 amended: the range query returns that list whenever every term of the
\* range exists (common_ratio /= 0 or no negative index in the range); when
\* common_ratio is 0 and the range holds a negative index it raises
\* ZeroDivisionError instead; the sequence's fields are unchanged either way.
C1_RangeQuery ==
    IsRangeQuery =>
        /\ seq = call.pre
        /\ RangeDefined => ResultIsRange
        /\ ~RangeDefined => (result.kind = "raise" /\ result.exc = "ZeroDivisionError")

\* a descending range query with three terms has been answered
C1_Witness ==
    /\ IsRangeQuery
    /\ QueryStep < -1
    /\ QueryCount = 3
    /\ result.kind = "list"
    /\ seq.common_ratio = RInt(2)

\* the last query was a slice with no start, with a step but no stop, or
\* with step 0
IsInvalidRangeQuery ==
    /\ call.op = "slice"
    /\ \/ ~call.subscript.start.some
       \/ call.subscript.step.some /\ ~call.subscript.stop.some
       \/ call.subscript.step.some /\ call.subscript.step.v = 0

\* C4: a range query with no start, with a step but no stop, or with step 0
\* raises an invalid-argument error (TypeError or ValueError), returns no
\* list, and leaves common_ratio and scale_factor unchanged.
C4_InvalidRangeQuery ==
    IsInvalidRangeQuery =>
        /\ result.kind = "raise"
        /\ result.exc \in {"TypeError", "ValueError"}
        /\ result.list = NoList
        /\ seq = call.pre
        /\ (call.subscript.start.some /\ call.subscript.stop.some)
              => result.exc = "ValueError"

\* a step-0 slice with start and stop given has been rejected
C4_Witness ==
    /\ IsInvalidRangeQuery
    /\ call.subscript.start.some
    /\ call.subscript.stop.some
    /\ call.subscript.step = Some(0)
    /\ result.kind = "raise"

\* C8: every generator started on the sequence has yielded, as its k-th
\* value (k = 0, 1, ...), seq[k] = scale_factor * common_ratio^k, whatever the
\* other generators over the sequence have consumed, and none has ended.
C8_IterationRestartable ==
    \A i \in 1 .. Len(iters) :
        /\ ~iters[i].exhausted
        /\ iters[i].index = Len(iters[i].yielded)
        /\ \A k \in 1 .. Len(iters[i].yielded) :
              iters[i].yielded[k] = Term(seq, k - 1)

\* a second generator was started after the first had advanced, and both
\* have yielded values
C8_Witness ==
    /\ Len(iters) = 2
    /\ Len(iters[1].yielded) = MaxPulls
    /\ Len(iters[2].yielded) = 2
    /\ seq.common_ratio = Rat(-1, 2)

-----------------------------------------------------------------------------
(* Properties of Metal *)

\* the receiver of the last Metal operation, as it was before the operation
Receiver == mcall.pre[mcall.self]

\* m[-n] = m.magnitude * ratio()^(-n) for the receiver m
ReceiverPredecessor ==
    Term(GeometricSequence(Metal_ratio(Receiver.cls), Receiver.magnitude), -mcall.n)

\* C2: for n /= 0, m + n (m - n) returns a new instance, distinct from m and
\* of m's variant, with magnitude m.magnitude + m[-n] (m.magnitude - m[-n]);
\* m and every other object are as before.
C2_AddSubReturnNewInstance ==
    (mcall.op \in {"add", "sub"} /\ mcall.n /= 0) =>
        /\ mres.kind = "ref"
        /\ mres.ref /= mcall.self
        /\ mres.ref \notin DOMAIN mcall.pre
        /\ mres.ref \in DOMAIN heap
        /\ heap[mres.ref].cls = Receiver.cls
        /\ heap[mres.ref].magnitude =
              (IF mcall.op = "add"
               THEN RAdd(Receiver.magnitude, ReceiverPredecessor)
               ELSE RSub(Receiver.magnitude, ReceiverPredecessor))
        /\ \A k \in DOMAIN mcall.pre : heap[k] = mcall.pre[k]

\* m + n has returned for a Golden m of non-zero magnitude and n = 1
C2_Witness ==
    /\ mcall.op = "add"
    /\ mcall.n = 1
    /\ mres.kind = "ref"
    /\ Receiver.cls = "Golden"
    /\ Receiver.magnitude = ROne
    /\ heap[mres.ref].magnitude = Rat(5, 3)

\* C3: each of m + 0, m - 0, m += 0, m -= 0 raises Metal.ArithmeticError,
\* returns no instance and leaves every magnitude as it was.
C3_ZeroStepRaises ==
    (mcall.op \in {"add", "sub", "iadd", "isub"} /\ mcall.n = 0) =>
        /\ mres.kind = "raise"
        /\ mres.exc = "Metal.ArithmeticError"
        /\ mres.ref = 0
        /\ heap = mcall.pre

\* m -= 0 has been rejected for an m of non-zero magnitude
C3_Witness ==
    /\ mcall.op = "isub"
    /\ mcall.n = 0
    /\ mres.kind = "raise"
    /\ Receiver.magnitude /= RZero

\* C6: reading angle_adjusted of a Metal of magnitude zero returns the zero
\* angle, raises nothing, and leaves the magnitude unchanged.
C6_ZeroMagnitudeZeroAngle ==
    (mcall.op = "angle_adjusted" /\ Receiver.magnitude = RZero) =>
        /\ mres.kind = "angle"
        /\ mres.angle = Angle(RZero)
        /\ heap = mcall.pre

\* C7: a < b is true exactly when a.magnitude < b.magnitude, for instances
\* of the same or of different variants; a == b is true exactly when a and b
\* are of the same variant and of equal magnitude.
C7_OrderingByMagnitude ==
    /\ mcall.op = "lt" =>
          /\ mres.kind = "bool"
          /\ mres.bool = RLt(mcall.pre[mcall.self].magnitude,
                             mcall.pre[mcall.other].magnitude)
    /\ mcall.op = "eq" =>
          /\ mres.kind = "bool"
          /\ mres.bool = (/\ mcall.pre[mcall.self].cls = mcall.pre[mcall.other].cls
                          /\ mcall.pre[mcall.self].magnitude
                                = mcall.pre[mcall.other].magnitude)

\* C10: every rectangle a rectangles generator has yielded has the height
\* the magnitude had when rectangles was read, and the k-th one (k = 0, 1, ...)
\* has width that magnitude * ratio()^k, whatever in-place arithmetic was
\* applied between the pulls.
C10_RectanglesFixedHeight ==
    \A g \in 1 .. Len(gens) :
        \A k \in 1 .. Len(gens[g].yielded) :
            /\ gens[g].yielded[k].height = gens[g].seq.scale_factor
            /\ gens[g].yielded[k].width = Term(gens[g].seq, k - 1)

-----------------------------------------------------------------------------
(* Properties of Angle *)

\* the object the target name referred to before the last statement
TargetBefore == acall.preenv[acall.target]

\* C5: after a += b with b an Angle, a refers to the same object and its
\* fraction is the old a.fraction + b.fraction; after a *= k with k a number,
\* a refers to the same object and its fraction is the old a.fraction * k;
\* neither statement fails as unsupported.
C5_InplaceMutatesReceiver ==
    /\ (acall.op = "iadd" /\ acall.operand.isAngle) =>
          /\ ares.kind = "ref"
          /\ env[acall.target] = TargetBefore
          /\ angles[TargetBefore].fraction =
                RAdd(acall.pre[TargetBefore].fraction,
                     acall.pre[acall.operand.ref].fraction)
    /\ (acall.op = "imul" /\ ~acall.operand.isAngle) =>
          /\ ares.kind = "ref"
          /\ env[acall.target] = TargetBefore
          /\ angles[TargetBefore].fraction =
                RMul(acall.pre[TargetBefore].fraction, acall.operand.num)

-----------------------------------------------------------------------------
(* Properties of Rectangle *)

\* C9: Rectangle(w, h) has width w and height h; two Rectangles are equal
\* exactly when their widths and heights match; the Rectangle rebuilt from
\* the repr of a Rectangle equals it.
C9_RectangleValueType ==
    /\ rcall.op = "new" =>
          /\ rects[rcall.self].width = rcall.width
          /\ rects[rcall.self].height = rcall.height
          /\ rres.rect = rects[rcall.self]
    /\ rcall.op = "eq" =>
          rres.bool = (/\ rects[rcall.self].width = rects[rcall.other].width
                       /\ rects[rcall.self].height = rects[rcall.other].height)
    /\ rcall.op = "restore" =>
          /\ Rectangle_eq(rects[rcall.self], rres.rect)
          /\ rres.rect.width = rects[rcall.self].width
          /\ rres.rect.height = rects[rcall.self].height

\* a Rectangle with a negative width and a two-digit height has been rebuilt
\* from its repr
C9_Witness ==
    /\ rcall.op = "restore"
    /\ rects[rcall.self].width = -13
    /\ rects[rcall.self].height = 20
    /\ rres.kind = "restored"
    /\ Len(rres.text) = 13

=============================================================================
